---- MODULE Spec2Model ----
\* Telemetry hooks of indesign-mcp (scripts/hooks): task-interceptor.py
\* (classify-and-start), telemetry-enhancer.py (pre-capture),
\* telemetry-collector.py (post-capture), checkpoint-manager.py (checkpoint).
\* Every hook is one process per event; what the hooks share is the ambient
\* environment (os.environ) and the files under ~/.claude and /tmp.
EXTENDS Integers, Sequences, FiniteSets, TLC

\* ------------------------------------------------------------------ bounds
MaxTicks == 3       \* clock ticks of half the scratch retention age each
NumSuffix == 2      \* distinct values of the random session id suffix
MaxLogLen == 2      \* lines a session log may grow to
MaxSessions == 2    \* sessions classify-and-start may create
MaxFailures == 1    \* storage operations that may fail within one invocation
MaxPieces == 4      \* pieces a prompt handed to the classifier is built of

\* ------------------------------------------------------- program constants
MaxAge == 3600      \* cleanup_temporary_files: older than 1 hour
MinMatches == 3     \* is_evolution_prompt: at least 3 keywords

\* ------------------------------------------------------------ token strings
\* A string is a sequence of tokens (words, separators); substring and prefix
\* tests are the tests on sequences.
StartsWith(s, p) == Len(s) >= Len(p) /\ SubSeq(s, 1, Len(p)) = p

Contains(s, p) ==
  \E i \in 1..(Len(s) - Len(p) + 1) : SubSeq(s, i, i + Len(p) - 1) = p

LowerTok(t) ==
  CASE t = "Recreate" -> "recreate"
    [] t = "InDesign" -> "indesign"
    [] t = "Reference" -> "reference"
    [] t = "Image" -> "image"
    [] t = "MCP" -> "mcp"
    [] t = "Timeout" -> "timeout"
    [] t = "Invalid" -> "invalid"
    [] OTHER -> t

Lower(s) == [i \in 1..Len(s) |-> LowerTok(s[i])]

ToolPrefix == <<"mcp__", "indesign__">>

TaskName == <<"Task">>

\* ------------------------------------------------------------------- JSON
\* Parsed JSON values, all of one record shape. t is the JSON type of the
\* value ("obj" an object, "arr" any non-object); an absent key has t "absent",
\* a key holding a number has t "num".
NoStr == [t |-> "absent", s |-> <<>>]
Num == [t |-> "num", s |-> <<>>]
Str(s) == [t |-> "str", s |-> s]

NoArgs == [t |-> "absent", prompt |-> NoStr]
NumArgs == [t |-> "num", prompt |-> NoStr]
Args(p) == [t |-> "dict", prompt |-> p]

NoTool == [t |-> "absent", name |-> NoStr, args |-> NoArgs]
NumTool == [t |-> "num", name |-> NoStr, args |-> NoArgs]
Tool(n, a) == [t |-> "dict", name |-> n, args |-> a]

NoResult == [t |-> "absent", error |-> <<>>, content |-> FALSE]
NumResult == [t |-> "num", error |-> <<>>, content |-> FALSE]
Result(e, c) == [t |-> "dict", error |-> e, content |-> c]

NoTiming == [t |-> "absent", total_ms |-> 0]
Timing(ms) == [t |-> "dict", total_ms |-> ms]

Obj(tool, result, timing) ==
  [t |-> "obj", tool |-> tool, result |-> result, timing |-> timing]

EmptyObj == Obj(NoTool, NoResult, NoTiming)

JsonArray == [t |-> "arr", tool |-> NoTool, result |-> NoResult, timing |-> NoTiming]

\* A text on stdin or stdout: ok tells whether it is JSON at all, ws its
\* spacing ("compact", "spaced") and v the value it denotes.
Malformed == [ok |-> FALSE, ws |-> "none", v |-> EmptyObj]
Text(ws, v) == [ok |-> TRUE, ws |-> ws, v |-> v]

\* json.loads: parsed reports a value, ~parsed the JSONDecodeError.
JsonLoads(text) == [parsed |-> text.ok, v |-> text.v]

\* json.dumps: the value in Python's default spacing.
JsonDumps(v) == Text("spaced", v)

\* sys.stdin.read() after the stream has been read to its end: the empty text.
StdinAfterRead == Malformed

\* --------------------------------------------------------- ambient context
\* A value of os.environ: unset, the empty string, the flag text 'true', a
\* session id "<unix_seconds>-evolution-<8 hex>" (ts, sfx), or other text s.
Unset == [k |-> "unset", ts |-> 0, sfx |-> 0, s |-> <<>>]
EmptyVal == [k |-> "empty", ts |-> 0, sfx |-> 0, s |-> <<>>]
TrueVal == [k |-> "true", ts |-> 0, sfx |-> 0, s |-> <<>>]
Sid(ts, sfx) == [k |-> "sid", ts |-> ts, sfx |-> sfx, s |-> <<>>]
TextVal(s) == [k |-> "text", ts |-> 0, sfx |-> 0, s |-> s]

\* Python truth of os.environ.get(name): None and '' are false.
Truthy(v) == v.k \notin {"unset", "empty"}

EnvNames ==
  {"EVOLUTION_SESSION_ID", "TELEMETRY_SESSION_ID", "TELEMETRY_ENABLED",
   "EVOLUTION_SESSION_ACTIVE", "TELEMETRY_AGENT_ID", "TELEMETRY_GENERATION"}

Times == {i * (MaxAge \div 2) : i \in 0..MaxTicks}

Ids == {Sid(t, r) : t \in Times, r \in 1..NumSuffix}

\* str.isdigit and int() on the text of TELEMETRY_GENERATION. "sup2" is a
\* character such as U+00B2 that isdigit accepts and int() rejects.
DecDigits == {"0", "1", "2", "3", "4", "5", "6", "7", "8", "9"}

DigitVal(c) ==
  CASE c = "0" -> 0 [] c = "1" -> 1 [] c = "2" -> 2 [] c = "3" -> 3
    [] c = "4" -> 4 [] c = "5" -> 5 [] c = "6" -> 6 [] c = "7" -> 7
    [] c = "8" -> 8 [] c = "9" -> 9 [] OTHER -> 0

IsDigit(s) == Len(s) > 0 /\ \A i \in 1..Len(s) : s[i] \in DecDigits \cup {"sup2"}

RECURSIVE IntOf(_)
IntOf(s) == IF s = <<>> THEN 0 ELSE 10 * IntOf(SubSeq(s, 1, Len(s) - 1)) + DigitVal(s[Len(s)])

\* get_session_info (the same function in enhancer, collector and checkpoint).
\* raised: int() threw ValueError.
GetSessionInfo(e) ==
  LET evo == e["EVOLUTION_SESSION_ID"]
      gen == e["TELEMETRY_GENERATION"]
      gtxt == IF gen.k = "unset" THEN <<"0">> ELSE gen.s
      digits == gen.k \in {"unset", "text"} /\ IsDigit(gtxt)
  IN [raised |-> digits /\ \E i \in 1..Len(gtxt) : gtxt[i] \notin DecDigits,
      session_id |-> IF Truthy(evo) THEN evo ELSE e["TELEMETRY_SESSION_ID"],
      agent_id |-> IF e["TELEMETRY_AGENT_ID"].k = "unset" THEN TextVal(<<"unknown">>)
                   ELSE e["TELEMETRY_AGENT_ID"],
      generation |-> IF digits THEN IntOf(gtxt) ELSE 0]

\* setup_evolution_session: the environment after it, for the new id.
SetupEvolutionSession(e, sid) ==
  [e EXCEPT !["EVOLUTION_SESSION_ID"] = sid,
            !["TELEMETRY_ENABLED"] = TrueVal,
            !["TELEMETRY_SESSION_ID"] = sid]

\* ------------------------------------------------------------- classifier
EvolutionKeywords ==
  {<<"recreate", " ", "this">>,
   <<"book", " ", "page", " ", "layout">>,
   <<"indesign">>,
   <<"mcp", " ", "tools">>,
   <<"telemetry_end_session">>,
   <<"set_environment_variable">>,
   <<"reference", " ", "image">>}

\* Variant: every occurrence of a keyword counted.
IsEvolutionPromptCountingRepeats(p) ==
  Cardinality({x \in EvolutionKeywords \X (1..Len(p)) :
                 /\ x[2] + Len(x[1]) - 1 <= Len(p)
                 /\ SubSeq(Lower(p), x[2], x[2] + Len(x[1]) - 1) = x[1]}) >= MinMatches

\* is_evolution_prompt
IsEvolutionPrompt(p) ==
  Cardinality({k \in EvolutionKeywords : Contains(Lower(p), k)}) >= MinMatches

\* extract_reference_info: re.search of  <label>\s*([^\n]+)  with IGNORECASE,
\* the labels tried in order, group(1).strip() of the first that matches.
RefPatterns == << <<"reference", " ", "image", ":">>, <<"reference", ":">> >>

IsWs(t) == t \in {" ", "\n"}

\* Index after the longest run of whitespace that starts at j.
WsEnd(s, j) ==
  IF \E k \in j..Len(s) : ~IsWs(s[k])
  THEN CHOOSE k \in j..Len(s) : ~IsWs(s[k]) /\ \A i \in j..(k - 1) : IsWs(s[i])
  ELSE Len(s) + 1

\* Where group 1 can start when the label ends before j: \s* is greedy and
\* gives back until a token other than newline follows it.
GroupStarts(s, j) == {m \in j..WsEnd(s, j) : m <= Len(s) /\ s[m] # "\n"}

LabelAt(s, lab, i) ==
  /\ i + Len(lab) - 1 <= Len(s)
  /\ Lower(SubSeq(s, i, i + Len(lab) - 1)) = lab
  /\ GroupStarts(s, i + Len(lab)) # {}

\* Last index of the run of non-newline tokens that starts at m.
LineEnd(s, m) ==
  CHOOSE e \in m..Len(s) :
    /\ \A i \in m..e : s[i] # "\n"
    /\ (e = Len(s) \/ s[e + 1] = "\n")

RECURSIVE Strip(_)
Strip(s) ==
  IF s = <<>> THEN s
  ELSE IF IsWs(s[1]) THEN Strip(Tail(s))
  ELSE IF IsWs(s[Len(s)]) THEN Strip(SubSeq(s, 1, Len(s) - 1))
  ELSE s

ReSearch(s, lab) ==
  LET hits == {i \in 1..Len(s) : LabelAt(s, lab, i)}
  IN IF hits = {} THEN [found |-> FALSE, s |-> <<>>]
     ELSE LET i == CHOOSE x \in hits : \A y \in hits : x <= y
              starts == GroupStarts(s, i + Len(lab))
              m == CHOOSE x \in starts : \A y \in starts : y <= x
          IN [found |-> TRUE, s |-> Strip(SubSeq(s, m, LineEnd(s, m)))]

ExtractReferenceInfo(p) ==
  IF ReSearch(p, RefPatterns[1]).found THEN ReSearch(p, RefPatterns[1])
  ELSE ReSearch(p, RefPatterns[2])

\* ------------------------------------------------------------------ inputs
PromptEvolution ==
  <<"Recreate", " ", "this", " ", "InDesign", " ", "page", "\n",
    "Reference", " ", "Image", ":", " ", "cover.png", " ", "\n", "thanks">>

PromptCasual == <<"recreate", " ", "this", " ", "indesign", " ", "page">>

McpTool == <<"mcp__", "indesign__", "add_text">>
EmbeddedTool == <<"my__", "mcp__", "indesign__", "add_text">>
OtherTool == <<"Read">>

TaskEnvelope(prompt) == Obj(Tool(Str(TaskName), Args(prompt)), NoResult, NoTiming)
ToolEnvelope(name, result) == Obj(Tool(Str(name), Args(NoStr)), result, Timing(7))

\* Envelopes of the shape the hooks recognise: an object whose tool descriptor
\* is a mapping with a string name and a mapping of arguments.
WellFormedValue(v) ==
  /\ v.t = "obj"
  /\ v.tool.t = "dict" /\ v.tool.name.t = "str" /\ v.tool.args.t = "dict"
  /\ v.tool.args.prompt.t # "num"
  /\ v.result.t # "num"

WellFormed(text) == text.ok /\ WellFormedValue(text.v)

\* What the host hands each hook on stdin: envelopes of the recognised shape,
EnhancerEnvelopes ==
  {Text("compact", ToolEnvelope(McpTool, NoResult)),
   Text("spaced", ToolEnvelope(EmbeddedTool, NoResult))}

CollectorEnvelopes ==
  {Text("compact", ToolEnvelope(McpTool, Result(<<>>, TRUE))),
   Text("spaced", ToolEnvelope(EmbeddedTool, Result(<<>>, TRUE)))}

InterceptorEnvelopes ==
  {Text("compact", TaskEnvelope(Str(PromptEvolution))),
   Text("spaced", TaskEnvelope(Str(PromptCasual))),
   Text("spaced", ToolEnvelope(OtherTool, NoResult))}

CheckpointEnvelopes == {Text("compact", ToolEnvelope(OtherTool, NoResult))}

\* The Task request that starts a session.
StartEnvelopes == {Text("compact", TaskEnvelope(Str(PromptEvolution)))}

\* and what else may arrive: no JSON, JSON that is no object, an object whose
\* tool, name, arguments, prompt or result is a number, the empty object.
EnhancerStdins ==
  {Text("compact", ToolEnvelope(McpTool, NoResult)),
   Text("spaced", Obj(Tool(Str(McpTool), NumArgs), NoResult, NoTiming)),
   Malformed}

CollectorStdins ==
  {Text("compact", ToolEnvelope(McpTool, Result(<<>>, TRUE))),
   Text("spaced", Obj(Tool(Str(McpTool), NoArgs), NumResult, NoTiming)),
   Malformed}

InterceptorStdins ==
  {Text("compact", TaskEnvelope(Str(PromptEvolution))),
   Text("spaced", TaskEnvelope(Num)),
   Malformed}

CheckpointStdins == CheckpointEnvelopes \cup {Malformed}

\* The emitted text denotes the value the input text denotes.
SameJson(a, b) == a.ok /\ b.ok /\ JsonLoads(a).v = JsonLoads(b).v

\* The prompts the host may send, classified and scanned once.
Prompts == {PromptEvolution, PromptCasual, <<>>}
EvolutionPrompts == {q \in Prompts : IsEvolutionPrompt(q)}
ReferenceOf == [q \in Prompts |-> ExtractReferenceInfo(q)]

\* ----------------------------------------------------------------- records
\* The fields of a record that hold the wall clock (timestamp, completion_time,
\* last_update, start_time, archive_time) are written and never read by a
\* hook; the records below carry the other fields.
NoText == TextVal(<<>>)

\* The records of the other two hooks carry no analysis.
NoAnalysis == [success |-> FALSE, has_content |-> FALSE, error_type |-> "none"]

\* enhance_telemetry_capture
EnhanceTelemetryCapture(e, name) ==
  [tool |-> name,
   session_id |-> GetSessionInfo(e).session_id,
   agent_id |-> GetSessionInfo(e).agent_id,
   generation |-> GetSessionInfo(e).generation,
   capture_source |-> "hook_preuse", result |-> "none", event |-> "none",
   result_analysis |-> NoAnalysis]

\* Variant: the permission test made before the timeout test.
AnalyzeToolResultPermissionFirst(result) ==
  LET error_msg == Lower(result.error)
  IN [success |-> result.error = <<>>,
      has_content |-> result.content,
      error_type |->
        IF result.error = <<>> THEN "none"
        ELSE IF Contains(error_msg, <<"permission">>) \/ Contains(error_msg, <<"access">>)
        THEN "permission"
        ELSE IF Contains(error_msg, <<"timeout">>) THEN "timeout"
        ELSE IF Contains(error_msg, <<"not", " ", "found">>) \/ Contains(error_msg, <<"missing">>)
        THEN "not_found"
        ELSE IF Contains(error_msg, <<"invalid">>) \/ Contains(error_msg, <<"parameter">>)
        THEN "parameter"
        ELSE "unknown"]

\* analyze_tool_result; error_type "none" is None. An error that is absent
\* or the empty string is no error.
AnalyzeToolResult(result) ==
  LET error_msg == Lower(result.error)
  IN [success |-> result.error = <<>>,
      has_content |-> result.content,
      error_type |->
        IF result.error = <<>> THEN "none"
        ELSE IF Contains(error_msg, <<"timeout">>) THEN "timeout"
        ELSE IF Contains(error_msg, <<"permission">>) \/ Contains(error_msg, <<"access">>)
        THEN "permission"
        ELSE IF Contains(error_msg, <<"not", " ", "found">>) \/ Contains(error_msg, <<"missing">>)
        THEN "not_found"
        ELSE IF Contains(error_msg, <<"invalid">>) \/ Contains(error_msg, <<"parameter">>)
        THEN "parameter"
        ELSE "unknown"]

\* Variant: the record's session id read from the second name alone.
CompleteTelemetryRecordSecondName(e, name, result) ==
  [tool |-> name,
   session_id |-> e["TELEMETRY_SESSION_ID"],
   agent_id |-> GetSessionInfo(e).agent_id,
   generation |-> GetSessionInfo(e).generation,
   capture_source |-> "hook_postuse",
   result |-> IF result.error = <<>> THEN "success" ELSE "error",
   event |-> "none", result_analysis |-> AnalyzeToolResult(result)]

\* complete_telemetry_record
CompleteTelemetryRecord(e, name, result) ==
  [tool |-> name,
   session_id |-> GetSessionInfo(e).session_id,
   agent_id |-> GetSessionInfo(e).agent_id,
   generation |-> GetSessionInfo(e).generation,
   capture_source |-> "hook_postuse",
   result |-> IF result.error = <<>> THEN "success" ELSE "error",
   event |-> "none", result_analysis |-> AnalyzeToolResult(result)]

\* finalize_telemetry_session: the completion marker
CompletionRecord(sid) ==
  [tool |-> <<>>, session_id |-> sid, agent_id |-> NoText, generation |-> 0,
   capture_source |-> "hook_stop", result |-> "none", event |-> "session_complete",
   result_analysis |-> NoAnalysis]

\* Variant: the log opened with 'w', so that a write replaces the file.
AppendLineTruncating(log, rec) == <<rec>>

\* Variant: the line written at the start of the file.
AppendLinePrepending(log, rec) == <<rec>> \o log

\* open(file, 'a'); f.write(line + '\n')
AppendLine(log, rec) == Append(log, rec)

\* Variant: 'mcp__indesign__' in tool_name, a substring test.
MatchesToolsetAnywhere(name) == Contains(name, ToolPrefix)

\* tool_name.startswith('mcp__indesign__')
MatchesToolset(name) == StartsWith(name, ToolPrefix)

\* os.environ.get('EVOLUTION_SESSION_ID') as the recorders test it
InEvolutionSession(e) == Truthy(e["EVOLUTION_SESSION_ID"])

\* The except branch of a main: stdin is read again, and as it is at its end
\* the minimal envelope is what is printed.
FallbackOutput(minimal) ==
  IF JsonLoads(StdinAfterRead).parsed THEN JsonDumps(JsonLoads(StdinAfterRead).v)
  ELSE JsonDumps(minimal)

InterceptorMinimal == Obj(Tool(Str(TaskName), Args(NoStr)), NoResult, NoTiming)
EnhancerMinimal == Obj(Tool(Str(<<"unknown">>), Args(NoStr)), NoResult, NoTiming)
CollectorMinimal == Obj(Tool(Str(<<"unknown">>), NoArgs), Result(<<>>, FALSE), NoTiming)

\* ------------------------------------------------------------------- files
\* A directory of per-session files: a function from the session ids that
\* have a file to its contents.
NoFiles == [i \in {} |-> <<>>]
Exists(dir, i) == i \in DOMAIN dir
Put(dir, i, c) == [j \in DOMAIN dir \cup {i} |-> IF j = i THEN c ELSE dir[j]]
Remove(dir, S) == [j \in DOMAIN dir \ S |-> dir[j]]

\* The lines of a log, none when there is no file.
Lines(dir, i) == IF Exists(dir, i) THEN dir[i] ELSE <<>>

\* ------------------------------------------------------------------- state
VARIABLES
  env,          \* os.environ as the hooks of one logical session see it
  now,          \* wall clock, seconds
  telemetryDir, \* ~/.claude/telemetry exists
  logs,         \* ~/.claude/telemetry/<session id>.jsonl: its lines
  stats,        \* ~/.claude/telemetry/<session id>-stats.json
  scratch,      \* /tmp/evolution-<session id>.json
  archiveRoot,  \* ~/.claude/evolution-archive exists
  archives,     \* the archive directories, each with its name (ts, sid)
  created,      \* sessions created so far
  last,         \* the invocation that led to this state
  call,         \* a function of the hooks called on its own: arguments, result
  procs         \* post-capture processes that run at the same time

vars ==
  <<env, now, telemetryDir, logs, stats, scratch, archiveRoot, archives, created, last,
    call, procs>>

NoKey == [ts |-> 0, sid |-> Unset]

\* What is kept of an invocation: the hook, what its stdin was (JSON at all,
\* an envelope of the recognised shape, a tool name with the toolset prefix),
\* how its stdout relates to it, and the steps it took.
NameOf(text) ==
  IF text.ok /\ text.v.tool.t = "dict" /\ text.v.tool.name.t = "str"
  THEN text.v.tool.name.s ELSE <<>>

Invocation(op, stdin, out) ==
  [op |-> op, json |-> stdin.ok, wf |-> WellFormed(stdin),
   prefixed |-> StartsWith(NameOf(stdin), ToolPrefix),
   printed |-> IF out.ok THEN 1 ELSE 0,
   same |-> SameJson(out, stdin),
   empty |-> out.ok /\ out.v = EmptyObj,
   sid |-> Unset, raised |-> FALSE,
   trig |-> FALSE, fin |-> FALSE, arch |-> NoKey, archived |-> FALSE,
   resume |-> FALSE, swept |-> FALSE, cleared |-> FALSE, und |-> {},
   repeat |-> FALSE,
   wrote |-> 0]

NoInvocation(op) == Invocation(op, Malformed, Malformed)

\* No function called on its own, no process in flight.
NoCall == [fn |-> "none"]
NoProcs == <<>>

\* The environment and the files before any hook has run.
InitState ==
  /\ env = [n \in EnvNames |-> Unset]
  /\ now = 0
  /\ telemetryDir = FALSE
  /\ logs = NoFiles
  /\ stats = NoFiles
  /\ scratch = NoFiles
  /\ archiveRoot = FALSE
  /\ archives = {}
  /\ created = 0
  /\ last = NoInvocation("init")

Init == InitState /\ call = NoCall /\ procs = NoProcs

\* The storage operations that may fail in an invocation of each hook.
FailureSets(points) == {F \in SUBSET points : Cardinality(F) <= MaxFailures}

EnhancerFailPoints == {"mkdir_telemetry", "append_log"}
CollectorFailPoints ==
  {"mkdir_telemetry", "append_log", "read_stats", "open_stats", "write_stats"}
InterceptorFailPoints == {"open_scratch", "write_scratch"}
CheckpointFailPoints ==
  {"append_log", "mkdir_archive_root", "mkdir_session_archive", "copy_log",
   "copy_stats", "copy_metadata", "write_summary", "write_resume"}

EnhancerFailures == FailureSets(EnhancerFailPoints)
CollectorFailures == FailureSets(CollectorFailPoints)
InterceptorFailures == FailureSets(InterceptorFailPoints)
CheckpointFailures == FailureSets(CheckpointFailPoints)

\* ------------------------------------------------------ clock and the host
Tick ==
  /\ now < MaxTicks * (MaxAge \div 2)
  /\ now' = now + (MaxAge \div 2)
  /\ last' = NoInvocation("tick")
  /\ UNCHANGED <<call, procs, env, telemetryDir, logs, stats, scratch, archiveRoot, archives, created>>

\* The host exports the flag the checkpoint tests.
HostSetActive ==
  /\ env["EVOLUTION_SESSION_ACTIVE"] # TrueVal
  /\ env' = [env EXCEPT !["EVOLUTION_SESSION_ACTIVE"] = TrueVal]
  /\ last' = NoInvocation("host")
  /\ UNCHANGED <<call, procs, now, telemetryDir, logs, stats, scratch, archiveRoot, archives, created>>

\* ------------------------------------------------------------- pre-capture
\* telemetry-enhancer.py main. F: the storage operations that fail in it.
PreCapture(stdin, F) ==
  LET p == JsonLoads(stdin)
      v == p.v
      info == GetSessionInfo(env)
      sid == info.session_id
      badShape == \/ ~p.parsed
                  \/ v.t # "obj"
                  \/ v.tool.t = "num"
                  \/ (v.tool.t = "dict" /\ v.tool.name.t = "num")
      name == IF v.tool.t = "dict" /\ v.tool.name.t = "str" THEN v.tool.name.s ELSE <<>>
      passes == ~badShape /\ (~MatchesToolset(name) \/ ~InEvolutionSession(env))
      badArgs == v.tool.args.t = "num"
      mkdirFails == ~telemetryDir /\ "mkdir_telemetry" \in F
      raises == badShape \/ (~passes /\ (info.raised \/ badArgs \/ (Truthy(sid) /\ mkdirFails)))
      writes == ~badShape /\ ~passes /\ ~raises /\ Truthy(sid)
      appends == writes /\ "append_log" \notin F
  IN /\ F \subseteq (IF badShape \/ passes \/ info.raised \/ badArgs THEN {}
                      ELSE IF telemetryDir THEN {"append_log"} ELSE EnhancerFailPoints)
     /\ appends => Len(Lines(logs, sid)) < MaxLogLen
     /\ telemetryDir' = (telemetryDir \/ writes)
     /\ logs' = IF appends
                THEN Put(logs, sid, AppendLine(Lines(logs, sid), EnhanceTelemetryCapture(env, name)))
                ELSE logs
     /\ last' = [Invocation("pre", stdin,
                            IF raises THEN FallbackOutput(EnhancerMinimal) ELSE JsonDumps(v))
                 EXCEPT !.sid = sid, !.raised = raises,
                        !.wrote = IF appends THEN 1 ELSE 0]
     /\ UNCHANGED <<call, procs, env, now, stats, scratch, archiveRoot, archives, created>>

\* ------------------------------------------------------------ post-capture
\* update_session_statistics: the stats file after it, file being <<>> when
\* there is none. A failed read (or an unreadable file) and a failed open for
\* writing leave the file as it was; a write that fails after open(.., 'w')
\* has truncated the file leaves it without a JSON document.
CorruptStats == [total_tools |-> 0, corrupt |-> TRUE]

UpdateSessionStatistics(file, F) ==
  LET old == IF file = <<>> THEN 0 ELSE file[1].total_tools
      readFails == file # <<>> /\ ("read_stats" \in F \/ file[1].corrupt)
  IN IF readFails \/ "open_stats" \in F THEN file
     ELSE IF "write_stats" \in F THEN <<CorruptStats>>
     ELSE <<[total_tools |-> old + 1, corrupt |-> FALSE]>>

\* telemetry-collector.py main
PostCapture(stdin, F) ==
  LET p == JsonLoads(stdin)
      v == p.v
      info == GetSessionInfo(env)
      sid == info.session_id
      badShape == \/ ~p.parsed
                  \/ v.t # "obj"
                  \/ v.tool.t = "num"
                  \/ (v.tool.t = "dict" /\ v.tool.name.t = "num")
      name == IF v.tool.t = "dict" /\ v.tool.name.t = "str" THEN v.tool.name.s ELSE <<>>
      passes == ~badShape /\ (~MatchesToolset(name) \/ ~InEvolutionSession(env))
      badResult == v.result.t = "num"
      mkdirFails == ~telemetryDir /\ "mkdir_telemetry" \in F
      raises == badShape \/ (~passes /\ (info.raised \/ badResult \/ (Truthy(sid) /\ mkdirFails)))
      writes == ~badShape /\ ~passes /\ ~raises /\ Truthy(sid)
      appends == writes /\ "append_log" \notin F
      oldStats == IF Exists(stats, sid) THEN <<stats[sid]>> ELSE <<>>
      newStats == UpdateSessionStatistics(oldStats, F)
  IN /\ F \subseteq (IF badShape \/ passes \/ info.raised \/ badResult THEN {}
                      ELSE CollectorFailPoints
                             \ ((IF telemetryDir THEN {"mkdir_telemetry"} ELSE {})
                                \cup (IF oldStats = <<>> THEN {"read_stats"} ELSE {})))
     /\ appends => Len(Lines(logs, sid)) < MaxLogLen
     /\ writes /\ newStats # <<>> => newStats[1].total_tools <= MaxLogLen
     /\ telemetryDir' = (telemetryDir \/ writes)
     /\ logs' = IF appends
                THEN Put(logs, sid,
                         AppendLine(Lines(logs, sid), CompleteTelemetryRecord(env, name, v.result)))
                ELSE logs
     /\ stats' = IF writes /\ newStats # <<>> THEN Put(stats, sid, newStats[1]) ELSE stats
     /\ last' = [Invocation("post", stdin,
                            IF raises THEN FallbackOutput(CollectorMinimal) ELSE JsonDumps(v))
                 EXCEPT !.sid = sid, !.raised = raises,
                        !.wrote = IF appends THEN 1 ELSE 0]
     /\ UNCHANGED <<call, procs, env, now, scratch, archiveRoot, archives, created>>

\* ------------------------------------------------------ classify-and-start
\* A scratch file whose json.dump failed part-way.
CorruptScratch(t) ==
  [session_id |-> Unset, reference |-> [found |-> FALSE, s |-> <<>>],
   intercepted |-> FALSE, mtime |-> t, corrupt |-> TRUE]

\* evolution_metadata, as written to /tmp/evolution-<session id>.json
EvolutionMetadata(sid, prompt, t) ==
  [session_id |-> sid, reference |-> ReferenceOf[prompt],
   intercepted |-> TRUE, mtime |-> t, corrupt |-> FALSE]

\* task-interceptor.py main. sfx: the random suffix uuid4 yields.
ClassifyAndStart(stdin, F, sfx) ==
  LET p == JsonLoads(stdin)
      v == p.v
      badShape == ~p.parsed \/ v.t # "obj" \/ v.tool.t = "num"
      isTask == ~badShape /\ v.tool.name.t = "str" /\ v.tool.name.s = TaskName
      badArgs == v.tool.args.t = "num" \/ v.tool.args.prompt.t = "num"
      prompt == v.tool.args.prompt.s
      starts == isTask /\ ~badArgs /\ prompt \in EvolutionPrompts
      sid == Sid(now, sfx)
      raises == badShape \/ (isTask /\ badArgs) \/ (starts /\ F # {})
  IN /\ F \subseteq (IF starts THEN InterceptorFailPoints ELSE {})
     /\ starts => created < MaxSessions
     /\ ~starts => sfx = 1
     /\ env' = IF starts THEN SetupEvolutionSession(env, sid) ELSE env
     /\ scratch' = IF ~starts \/ "open_scratch" \in F THEN scratch
                   ELSE IF "write_scratch" \in F THEN Put(scratch, sid, CorruptScratch(now))
                   ELSE Put(scratch, sid, EvolutionMetadata(sid, prompt, now))
     /\ created' = IF starts THEN created + 1 ELSE created
     /\ last' = [Invocation("classify", stdin,
                            IF raises THEN FallbackOutput(InterceptorMinimal) ELSE JsonDumps(v))
                 EXCEPT !.sid = IF starts THEN sid ELSE Unset, !.raised = raises,
                        !.trig = starts]
     /\ UNCHANGED <<call, procs, now, telemetryDir, logs, stats, archiveRoot, archives>>

\* -------------------------------------------------------------- checkpoint
LogName == "<session_id>.jsonl"
StatsName == "<session_id>-stats.json"
MetadataName == "session-metadata.json"

\* Variant: the trigger testing the flag alone.
CheckpointTriggeredFlagOnly(e) == Truthy(e["EVOLUTION_SESSION_ACTIVE"])

\* session_id and os.environ.get('EVOLUTION_SESSION_ACTIVE')
CheckpointTriggered(e) ==
  Truthy(GetSessionInfo(e).session_id) /\ Truthy(e["EVOLUTION_SESSION_ACTIVE"])

\* del os.environ[...] of the two names the checkpoint clears
ClearEvolutionEnv(e) ==
  [e EXCEPT !["EVOLUTION_SESSION_ID"] = Unset, !["EVOLUTION_SESSION_ACTIVE"] = Unset]

\* An archive directory <timestamp>_<session id> and the files in it, each
\* <<>> when absent and <<contents>> when present.
EmptyDir(t, sid) ==
  [ts |-> t, sid |-> sid, log |-> <<>>, stats |-> <<>>, meta |-> <<>>,
   summary |-> <<>>, resume |-> FALSE]

\* os.listdir of the telemetry directory, filtered by  session_id in filename
\* (a session id is contained in the name of its own two files only). The order
\* of a listing is arbitrary: logFirst picks it.
TelemetryListing(hasLog, hasStats, logFirst) ==
  IF hasLog /\ hasStats
  THEN IF logFirst THEN <<LogName, StatsName>> ELSE <<StatsName, LogName>>
  ELSE IF hasLog THEN <<LogName>>
  ELSE IF hasStats THEN <<StatsName>>
  ELSE <<>>

CopyFails(name, F) ==
  \/ name = LogName /\ "copy_log" \in F
  \/ name = StatsName /\ "copy_stats" \in F
  \/ name = MetadataName /\ "copy_metadata" \in F

\* The copy loop: the names copied before the first shutil.copy2 that throws.
RECURSIVE CopiedPrefix(_, _)
CopiedPrefix(listing, F) ==
  IF listing = <<>> \/ CopyFails(Head(listing), F) THEN <<>>
  ELSE <<Head(listing)>> \o CopiedPrefix(Tail(listing), F)

InSeq(x, q) == \E i \in 1..Len(q) : q[i] = x

\* Variant: a summary that counts itself among the archived files.
ArchiveSummaryCountsItself(sid, t, archived) ==
  [session_id |-> sid, archive_path |-> [ts |-> t, sid |-> sid],
   archived_files |-> archived, total_files |-> Len(archived) + 1]

\* archive_summary
ArchiveSummary(sid, t, archived) ==
  [session_id |-> sid, archive_path |-> [ts |-> t, sid |-> sid],
   archived_files |-> archived, total_files |-> Len(archived)]

\* Variant: the scratch file removed before it is copied, so that it is gone
\* when the copy fails.
ArchiveEvolutionDataRemoveFirst(dir, sid, t, log, st, meta, F, removable, logFirst) ==
  LET listing == TelemetryListing(log # <<>>, st # <<>>, logFirst)
      copied == CopiedPrefix(listing, F)
      loopOk == copied = listing
      metaCopied == loopOk /\ meta # <<>> /\ ~CopyFails(MetadataName, F)
      metaRemoved == loopOk /\ meta # <<>> /\ removable
      metaOk == loopOk /\ (meta = <<>> \/ metaRemoved)
      archived == IF metaCopied THEN Append(copied, MetadataName) ELSE copied
      summaryOk == metaOk /\ "write_summary" \notin F
  IN [dir |-> [dir EXCEPT !.log = IF InSeq(LogName, copied) THEN log ELSE @,
                          !.stats = IF InSeq(StatsName, copied) THEN st ELSE @,
                          !.meta = IF metaCopied THEN meta ELSE @,
                          !.summary = IF summaryOk THEN <<ArchiveSummary(sid, t, archived)>> ELSE @],
      removed |-> metaRemoved,
      ok |-> summaryOk]

\* archive_evolution_data after both makedirs: the directory, whether the
\* scratch file was removed and whether a path is returned. log, st, meta: the
\* session's files, <<>> or <<contents>>; removable: os.remove succeeds.
ArchiveEvolutionData(dir, sid, t, log, st, meta, F, removable, logFirst) ==
  LET listing == TelemetryListing(log # <<>>, st # <<>>, logFirst)
      copied == CopiedPrefix(listing, F)
      loopOk == copied = listing
      metaCopied == loopOk /\ meta # <<>> /\ ~CopyFails(MetadataName, F)
      metaRemoved == metaCopied /\ removable
      metaOk == loopOk /\ (meta = <<>> \/ metaRemoved)
      archived == IF metaCopied THEN Append(copied, MetadataName) ELSE copied
      summaryOk == metaOk /\ "write_summary" \notin F
  IN [dir |-> [dir EXCEPT !.log = IF InSeq(LogName, copied) THEN log ELSE @,
                          !.stats = IF InSeq(StatsName, copied) THEN st ELSE @,
                          !.meta = IF metaCopied THEN meta ELSE @,
                          !.summary = IF summaryOk THEN <<ArchiveSummary(sid, t, archived)>> ELSE @],
      removed |-> metaRemoved,
      ok |-> summaryOk]

\* Variant: files of exactly the retention age removed as well.
CleanupTemporaryFilesAtOneHour(tmp, t, und) ==
  Remove(tmp, {i \in DOMAIN tmp : t - tmp[i].mtime >= MaxAge /\ i \notin und})

\* Variant: the loop left after the first file it removes.
CleanupTemporaryFilesOnePerRun(tmp, t, und) ==
  LET old == {i \in DOMAIN tmp : t - tmp[i].mtime > MaxAge /\ i \notin und}
  IN IF old = {} THEN tmp ELSE Remove(tmp, {CHOOSE i \in old : TRUE})

\* cleanup_temporary_files: the scratch files after the sweep. und: the files
\* os.remove fails on.
CleanupTemporaryFiles(tmp, t, und) ==
  Remove(tmp, {i \in DOMAIN tmp : t - tmp[i].mtime > MaxAge /\ i \notin und})

\* Variant: the archive made before the log is finalized.
LogAtArchiveBeforeFinalize(before, after, sid) ==
  IF Exists(before, sid) THEN <<before[sid]>> ELSE <<>>

\* main calls finalize_telemetry_session, then archive_evolution_data: the
\* log the archive step finds is the log as the finalize step left it.
LogAtArchive(before, after, sid) ==
  IF Exists(after, sid) THEN <<after[sid]>> ELSE <<>>

\* checkpoint-manager.py main
Checkpoint(stdin, F, und, logFirst) ==
  LET p == JsonLoads(stdin)
      input == IF p.parsed THEN p.v ELSE EmptyObj
      info == GetSessionInfo(env)
      sid == info.session_id
      trig == ~info.raised /\ CheckpointTriggered(env)
      \* finalize_telemetry_session
      fin == trig /\ telemetryDir /\ "append_log" \notin F
      logs1 == IF fin THEN Put(logs, sid, AppendLine(Lines(logs, sid), CompletionRecord(sid)))
               ELSE logs
      \* archive_evolution_data
      rootFails == ~archiveRoot /\ "mkdir_archive_root" \in F
      existing == {d \in archives : d.ts = now /\ d.sid = sid}
      dirFails == existing = {} /\ "mkdir_session_archive" \in F
      mkdirRaises == trig /\ (rootFails \/ dirFails)
      dir0 == IF existing = {} THEN EmptyDir(now, sid) ELSE CHOOSE d \in existing : TRUE
      logFile == IF telemetryDir THEN LogAtArchive(logs, logs1, sid) ELSE <<>>
      statsFile == IF telemetryDir /\ Exists(stats, sid) THEN <<stats[sid]>> ELSE <<>>
      metaFile == IF Exists(scratch, sid) THEN <<scratch[sid]>> ELSE <<>>
      arch == ArchiveEvolutionData(dir0, sid, now, logFile, statsFile, metaFile, F,
                                   sid \notin und, logFirst)
      archived == trig /\ ~mkdirRaises /\ arch.ok
      \* generate_resume_instructions
      resume == archived /\ "write_resume" \notin F
      dir1 == [arch.dir EXCEPT !.resume = @ \/ resume]
      scratch1 == IF trig /\ ~mkdirRaises /\ arch.removed THEN Remove(scratch, {sid}) ELSE scratch
      raises == info.raised \/ mkdirRaises
      completes == trig /\ ~raises
  IN /\ F \subseteq (IF ~trig THEN {}
                      ELSE CheckpointFailPoints
                             \ ((IF telemetryDir THEN {} ELSE {"append_log"})
                                \cup (IF archiveRoot THEN {"mkdir_archive_root"} ELSE {})
                                \cup (IF existing = {} THEN {} ELSE {"mkdir_session_archive"})
                                \cup (IF logFile # <<>> THEN {} ELSE {"copy_log"})
                                \cup (IF statsFile # <<>> THEN {} ELSE {"copy_stats"})
                                \cup (IF metaFile # <<>> THEN {} ELSE {"copy_metadata"})))
     /\ und \subseteq (IF trig
                        THEN {i \in DOMAIN scratch : i = sid \/ now - scratch[i].mtime > MaxAge}
                        ELSE {})
     /\ ~(trig /\ logFile # <<>> /\ statsFile # <<>>) => logFirst
     /\ fin => Len(Lines(logs, sid)) <= MaxLogLen
     /\ logs' = logs1
     /\ archiveRoot' = (archiveRoot \/ (trig /\ ~rootFails))
     /\ archives' = IF trig /\ ~mkdirRaises THEN (archives \ existing) \cup {dir1} ELSE archives
     /\ scratch' = IF completes THEN CleanupTemporaryFiles(scratch1, now, und) ELSE scratch1
     /\ env' = IF completes THEN ClearEvolutionEnv(env) ELSE env
     /\ last' = [Invocation("checkpoint", stdin,
                            IF raises THEN JsonDumps(EmptyObj) ELSE JsonDumps(input))
                 EXCEPT !.sid = sid, !.raised = raises, !.trig = trig, !.fin = fin,
                        !.arch = IF trig /\ ~mkdirRaises THEN [ts |-> now, sid |-> sid] ELSE NoKey,
                        !.archived = archived, !.resume = resume,
                        !.swept = completes, !.cleared = completes, !.und = und,
                        !.wrote = IF fin THEN 1 ELSE 0]
     /\ UNCHANGED <<call, procs, now, telemetryDir, stats, created>>

\* ------------------------------------------------------------ specification
\* Envelopes of the recognised shape, every storage operation succeeding,
\* within one second of the clock.
Next ==
  \/ HostSetActive
  \/ \E stdin \in EnhancerEnvelopes : PreCapture(stdin, {})
  \/ \E stdin \in CollectorEnvelopes : PostCapture(stdin, {})
  \/ \E stdin \in InterceptorEnvelopes : \E sfx \in 1..NumSuffix :
       ClassifyAndStart(stdin, {}, sfx)
  \/ \E stdin \in CheckpointEnvelopes : \E logFirst \in BOOLEAN :
       Checkpoint(stdin, {}, {}, logFirst)

Spec == Init /\ [][Next]_vars

\* Any stdin, and storage operations that fail, over the life of one session
\* up to its archive, the recorders running while no log is full.
NextFail ==
  \/ HostSetActive
  \/ \E stdin \in EnhancerStdins :
       \E F \in (IF InEvolutionSession(env) THEN EnhancerFailures ELSE {{}}) :
         (\A i \in DOMAIN logs : Len(logs[i]) < MaxLogLen) /\ PreCapture(stdin, F)
  \/ \E stdin \in CollectorStdins :
       \E F \in (IF InEvolutionSession(env) THEN CollectorFailures ELSE {{}}) :
         (\A i \in DOMAIN logs : Len(logs[i]) < MaxLogLen) /\ PostCapture(stdin, F)
  \/ \E stdin \in InterceptorStdins : \E F \in InterceptorFailures :
       created = 0 /\ ClassifyAndStart(stdin, F, 1)
  \/ /\ archives = {}
     /\ \E stdin \in CheckpointStdins :
          IF CheckpointTriggered(env)
          THEN \E F \in CheckpointFailures : \E und \in SUBSET DOMAIN scratch :
                 \E logFirst \in BOOLEAN : Checkpoint(stdin, F, und, logFirst)
          ELSE Checkpoint(stdin, {}, {}, TRUE)

SpecFail == Init /\ [][NextFail]_vars

\* ---------------------------------------------------------------- the sweep
\* cleanup_temporary_files run on its own. und: the files os.remove fails on,
\* among those the sweep tries to remove. repeat: the run follows a run in
\* which the same removals failed.
Sweep(und) ==
  /\ und \subseteq {i \in DOMAIN scratch : now - scratch[i].mtime > MaxAge}
  /\ scratch' = CleanupTemporaryFiles(scratch, now, und)
  /\ last' = [NoInvocation("sweep") EXCEPT
                !.swept = TRUE, !.und = und,
                !.repeat = (last.op = "sweep" /\ last.und = und),
                !.wrote = Cardinality(DOMAIN scratch \ DOMAIN scratch')]
  /\ UNCHANGED <<call, procs, env, now, telemetryDir, logs, stats, archiveRoot, archives,
                 created>>

\* Sessions created while the clock advances, checkpoints up to the first
\* archive, and sweeps.
NextSweep ==
  \/ Tick
  \/ HostSetActive
  \/ \E stdin \in StartEnvelopes : \E sfx \in 1..NumSuffix :
       ClassifyAndStart(stdin, {}, sfx)
  \/ \E stdin \in CheckpointEnvelopes : \E und \in SUBSET DOMAIN scratch :
       archives = {} /\ Checkpoint(stdin, {}, und, TRUE)
  \/ \E und \in SUBSET DOMAIN scratch : Sweep(und)

SpecSweep == Init /\ [][NextSweep]_vars

\* ------------------------------------------- completions at the same time
\* Post-capture invocations of one session as separate processes, each taking
\* the steps of update_session_statistics one at a time: the test for the
\* file, the load, the open for writing (which empties the file), the dump.
\* The counts written here are of one length, so a dump over another
\* process's dump leaves one whole document.
MaxProcs == 3

RaceStdin == Text("compact", ToolEnvelope(McpTool, Result(<<>>, TRUE)))

CountTwoMore(old) == old + 2

\* stats['total_tools'] = stats.get('total_tools', 0) + 1
CountOneMore(old) == old + 1

Running(p) == p.pc # "done"

\* main up to the call of update_session_statistics: the record is completed
\* and appended to the log. overl: the process ran while another did.
ProcStart ==
  LET info == GetSessionInfo(env)
      sid == info.session_id
      v == JsonLoads(RaceStdin).v
      busy == \E k \in DOMAIN procs : Running(procs[k])
  IN /\ InEvolutionSession(env) /\ ~info.raised /\ Truthy(sid)
     /\ Len(procs) < MaxProcs
     /\ telemetryDir' = TRUE
     /\ logs' = Put(logs, sid,
                    AppendLine(Lines(logs, sid), CompleteTelemetryRecord(env, McpTool, v.result)))
     /\ procs' = Append([k \in DOMAIN procs |->
                           [procs[k] EXCEPT !.overl = @ \/ Running(procs[k])]],
                        [pc |-> "exists", sid |-> sid, old |-> 0, overl |-> busy])
     /\ UNCHANGED <<call, env, now, stats, scratch, archiveRoot, archives, created, last>>

\* if os.path.exists(stats_file)
ProcExists(k) ==
  /\ procs[k].pc = "exists"
  /\ procs' = [procs EXCEPT ![k].pc = IF Exists(stats, procs[k].sid) THEN "load" ELSE "open"]
  /\ UNCHANGED <<call, env, now, telemetryDir, logs, stats, scratch, archiveRoot, archives,
                 created, last>>

\* The invocation ends: the envelope is printed.
Printed(sid) ==
  [Invocation("post", RaceStdin, JsonDumps(JsonLoads(RaceStdin).v))
   EXCEPT !.sid = sid, !.wrote = 1]

\* stats = json.load(f): of an emptied file it raises, and the update is
\* given up.
ProcLoad(k) ==
  LET file == stats[procs[k].sid]
  IN /\ procs[k].pc = "load"
     /\ procs' = [procs EXCEPT ![k].pc = IF file.corrupt THEN "done" ELSE "open",
                               ![k].old = IF file.corrupt THEN 0 ELSE file.total_tools]
     /\ last' = IF file.corrupt THEN Printed(procs[k].sid) ELSE last
     /\ UNCHANGED <<call, env, now, telemetryDir, logs, stats, scratch, archiveRoot,
                    archives, created>>

\* open(stats_file, 'w')
ProcOpen(k) ==
  /\ procs[k].pc = "open"
  /\ stats' = Put(stats, procs[k].sid, CorruptStats)
  /\ procs' = [procs EXCEPT ![k].pc = "dump"]
  /\ UNCHANGED <<call, env, now, telemetryDir, logs, scratch, archiveRoot, archives,
                 created, last>>

\* json.dump(stats, f) and the close
ProcDump(k) ==
  /\ procs[k].pc = "dump"
  /\ stats' = Put(stats, procs[k].sid,
                  [total_tools |-> CountOneMore(procs[k].old), corrupt |-> FALSE])
  /\ procs' = [procs EXCEPT ![k].pc = "done"]
  /\ last' = Printed(procs[k].sid)
  /\ UNCHANGED <<call, env, now, telemetryDir, logs, scratch, archiveRoot, archives,
                 created>>

\* One session, and its completions in every interleaving of their steps.
NextRace ==
  \/ \E stdin \in StartEnvelopes : created = 0 /\ ClassifyAndStart(stdin, {}, 1)
  \/ ProcStart
  \/ \E k \in DOMAIN procs : ProcExists(k)
  \/ \E k \in DOMAIN procs : ProcLoad(k)
  \/ \E k \in DOMAIN procs : ProcOpen(k)
  \/ \E k \in DOMAIN procs : ProcDump(k)

SpecRace == Init /\ [][NextRace]_vars

\* ------------------------------------------------- the two session id names
\* The host exports the session id under either name (the resume guide has
\* the user export it by hand), so that the hooks run with every combination
\* of the two names unset, empty, or set to one of two ids.
NameValues == {Unset, EmptyVal, Sid(0, 1), Sid(0, 2)}

HostExport(evo, tel) ==
  /\ <<env["EVOLUTION_SESSION_ID"], env["TELEMETRY_SESSION_ID"]>> # <<evo, tel>>
  /\ env' = [env EXCEPT !["EVOLUTION_SESSION_ID"] = evo, !["TELEMETRY_SESSION_ID"] = tel]
  /\ last' = NoInvocation("host")
  /\ UNCHANGED <<call, procs, now, telemetryDir, logs, stats, scratch, archiveRoot, archives,
                 created>>

NextNames ==
  \/ HostSetActive
  \/ \E evo \in NameValues, tel \in NameValues : HostExport(evo, tel)
  \/ \E stdin \in EnhancerEnvelopes : PreCapture(stdin, {})
  \/ \E stdin \in CollectorEnvelopes : PostCapture(stdin, {})
  \/ \E stdin \in CheckpointEnvelopes :
       archives = {} /\ Checkpoint(stdin, {}, {}, TRUE)

SpecNames == Init /\ [][NextNames]_vars

\* ------------------------------------------------- functions on their own
\* The sequences over S of length at most n.
SeqsUpTo(S, n) == UNION {[1..k -> S] : k \in 0..n}

\* The pieces joined by single spaces.
RECURSIVE Join(_)
Join(q) ==
  IF q = <<>> THEN <<>>
  ELSE IF Len(q) = 1 THEN q[1]
  ELSE q[1] \o <<" ">> \o Join(Tail(q))

\* Prompts for the classifier: phrases of the vocabulary as they may be
\* typed, and a word that is none.
PromptPieces ==
  {<<"Recreate", " ", "this">>, <<"recreate", " ", "this">>, <<"InDesign">>,
   <<"MCP", " ", "tools">>, <<"book", " ", "page", " ", "layout">>, <<"please">>}

ClassifierCalls ==
  {[fn |-> "is_evolution_prompt", pieces |-> q, arg |-> Join(q), done |-> FALSE, ret |-> FALSE] :
     q \in SeqsUpTo(PromptPieces, MaxPieces)}

CallIsEvolutionPrompt ==
  /\ call.fn = "is_evolution_prompt" /\ ~call.done
  /\ call' = [call EXCEPT !.done = TRUE, !.ret = IsEvolutionPrompt(call.arg)]
  /\ UNCHANGED <<env, now, telemetryDir, logs, stats, scratch, archiveRoot, archives,
                 created, last, procs>>

\* Results for the completion record: error messages built of the words the
\* analysis looks for, in some spellings, and a word it does not look for.
ErrorPieces ==
  {<<"Timeout">>, <<"permission">>, <<"access">>, <<"not", " ", "found">>,
   <<"missing">>, <<"Invalid">>, <<"parameter">>, <<"failed">>}

CompletionCalls ==
  {[fn |-> "complete_telemetry_record", pieces |-> q, arg |-> Result(Join(q), c),
    done |-> FALSE, ret |-> CompletionRecord(Unset)] :
     q \in SeqsUpTo(ErrorPieces, MaxPieces - 1), c \in BOOLEAN}

CallCompleteTelemetryRecord ==
  /\ call.fn = "complete_telemetry_record" /\ ~call.done
  /\ call' = [call EXCEPT !.done = TRUE,
                          !.ret = CompleteTelemetryRecord(env, McpTool, call.arg)]
  /\ UNCHANGED <<env, now, telemetryDir, logs, stats, scratch, archiveRoot, archives,
                 created, last, procs>>

\* Prompts for the reference scan: the two labels, separators and values in
\* every order.
RECURSIVE Concat(_)
Concat(q) == IF q = <<>> THEN <<>> ELSE Head(q) \o Concat(Tail(q))

ReferencePieces ==
  {<<"Reference", " ", "Image", ":">>, <<"reference", ":">>, <<" ">>, <<"\n">>,
   <<"cover.png">>, <<"b.png">>}

ReferenceCalls ==
  {[fn |-> "extract_reference_info", pieces |-> q, arg |-> Concat(q),
    done |-> FALSE, ret |-> [found |-> FALSE, s |-> <<>>]] :
     q \in SeqsUpTo(ReferencePieces, MaxPieces)}

CallExtractReferenceInfo ==
  /\ call.fn = "extract_reference_info" /\ ~call.done
  /\ call' = [call EXCEPT !.done = TRUE, !.ret = ExtractReferenceInfo(call.arg)]
  /\ UNCHANGED <<env, now, telemetryDir, logs, stats, scratch, archiveRoot, archives,
                 created, last, procs>>

\* Ambient contexts for get_session_info: each session id name unset, empty
\* or set, the agent id unset or set, and generation texts of digits, of a
\* character isdigit accepts and int() does not, and of a sign.
GenerationChars == {"0", "7", "sup2", "-"}

GenerationValues ==
  {Unset, EmptyVal} \cup {TextVal(g) : g \in SeqsUpTo(GenerationChars, MaxPieces - 2) \ {<<>>}}

ContextCalls ==
  {[fn |-> "get_session_info", pieces |-> <<>>,
    arg |-> [n \in EnvNames |->
               CASE n = "EVOLUTION_SESSION_ID" -> evo
                 [] n = "TELEMETRY_SESSION_ID" -> tel
                 [] n = "TELEMETRY_AGENT_ID" -> agent
                 [] n = "TELEMETRY_GENERATION" -> gen
                 [] OTHER -> Unset],
    done |-> FALSE, ret |-> GetSessionInfo([n \in EnvNames |-> Unset])] :
     evo \in {Unset, EmptyVal, Sid(0, 1)}, tel \in {Unset, EmptyVal, Sid(0, 2)},
     agent \in {Unset, TextVal(<<"agent-1">>)}, gen \in GenerationValues}

CallGetSessionInfo ==
  /\ call.fn = "get_session_info" /\ ~call.done
  /\ call' = [call EXCEPT !.done = TRUE, !.ret = GetSessionInfo(call.arg)]
  /\ UNCHANGED <<env, now, telemetryDir, logs, stats, scratch, archiveRoot, archives,
                 created, last, procs>>

CallInputs == ClassifierCalls \cup CompletionCalls \cup ReferenceCalls \cup ContextCalls

InitCalls == InitState /\ procs = NoProcs /\ call \in CallInputs

NextCalls ==
  \/ CallIsEvolutionPrompt
  \/ CallCompleteTelemetryRecord
  \/ CallExtractReferenceInfo
  \/ CallGetSessionInfo

SpecCalls == InitCalls /\ [][NextCalls]_vars

C2_PassThroughUnderFailure ==
  (last.op \in {"pre", "post", "classify", "checkpoint"} /\ last.wf) => last.same

\* C3: every invocation prints exactly one JSON object, which is its input or,
\* as the last resort, the empty object.
C3_OutputIsInputOrEmpty ==
  last.op \in {"pre", "post", "classify", "checkpoint"}
    => last.printed = 1 /\ (last.same \/ last.empty)

\* C4: the checkpoint invocation that follows the creation of a session is
\* triggered: it finalizes, archives and clears that session.
C4_CheckpointAfterCreate ==
  [][(last.op = "classify" /\ last.trig /\ last'.op = "checkpoint")
       => /\ last'.trig /\ last'.sid = last.sid
          /\ last'.archived /\ last'.cleared]_vars

C6_ArchiveComplete ==
  [][LET sid == GetSessionInfo(env).session_id
         made == archives' \ archives
     IN (/\ last'.op = "checkpoint" /\ last'.trig
         /\ Exists(logs, sid) /\ Exists(scratch, sid))
          => /\ Cardinality(made) = 1
             /\ Cardinality({d \in archives' : d.sid = sid /\ d.ts = now}) = 1
             /\ \A d \in made :
                  /\ d.sid = sid /\ d.ts = now
                  /\ d.log = <<logs'[sid]>>
                  /\ d.meta = <<scratch[sid]>>
                  /\ d.summary # <<>>
                  /\ LET files == d.summary[1].archived_files
                         names == {files[i] : i \in 1..Len(files)}
                     IN /\ names = {LogName, MetadataName}
                                     \cup (IF d.stats # <<>> THEN {StatsName} ELSE {})
                        /\ Cardinality(names) = Len(files)
                        /\ files[Len(files)] = MetadataName
                        /\ d.summary[1].total_files = Len(files)
             /\ ~Exists(scratch', sid)]_vars

\* An archive of three files: the log, the statistics and the metadata.
C6_Witness ==
  /\ last.op = "checkpoint" /\ last.archived
  /\ ~Exists(scratch, last.sid)
  /\ \E d \in archives :
       /\ d.sid = last.sid /\ d.ts = last.arch.ts
       /\ d.log # <<>> /\ d.meta # <<>> /\ d.summary # <<>>
       /\ d.summary[1].total_files = 3

\* C7: a triggered checkpoint whose archive step fails skips the resume
\* instructions and still sweeps the scratch files and clears the session.
C7_ArchiveFailureIsSurvived ==
  (last.op = "checkpoint" /\ last.trig /\ ~last.archived)
    => ~last.resume /\ last.swept /\ last.cleared

\* C8: once a checkpoint has cleared the session, the session id derived from
\* the ambient context is absent and the recorders append nothing to a log
\* and leave the statistics as they are.
C8_NoSessionAfterCheckpoint ==
  [][(/\ last.op = "checkpoint" /\ last.cleared)
       => /\ ~Truthy(GetSessionInfo(env).session_id)
          /\ (last'.op \in {"pre", "post"} => logs' = logs /\ stats' = stats)]_vars

\* C9: from the creation of a session until a checkpoint, the session id in
\* the ambient context stays the same, whatever request arrives.
C9_SessionIdCreatedOnce ==
  [][(Truthy(env["EVOLUTION_SESSION_ID"]) /\ last'.op # "checkpoint")
       => env'["EVOLUTION_SESSION_ID"] = env["EVOLUTION_SESSION_ID"]]_vars

\* C10: a recorder given a tool name that does not start with mcp__indesign__
\* writes nothing and emits its input, whatever the session state.
C10_OnlyToolsetIsRecorded ==
  [][(last'.op \in {"pre", "post"} /\ last'.wf /\ ~last'.prefixed)
       => /\ last'.same /\ last'.wrote = 0
          /\ UNCHANGED <<telemetryDir, logs, stats>>]_vars

\* In a session, a post-capture of a tool whose name holds the prefix further
\* in has passed its input through.
C10_Witness ==
  /\ last.op = "post" /\ last.wf /\ ~last.prefixed /\ last.same
  /\ InEvolutionSession(env)
  /\ Exists(logs, env["EVOLUTION_SESSION_ID"])

\* C11: the classifier answers true exactly when at least 3 distinct phrases
\* of the vocabulary occur in the prompt, whatever their case and however
\* often each occurs.
C11_ThreeDistinctPhrases ==
  (call.fn = "is_evolution_prompt" /\ call.done)
    => (call.ret <=>
          Cardinality({k \in EvolutionKeywords :
                         \E i \in 1..Len(call.pieces) : Lower(call.pieces[i]) = k}) >= 3)

\* A prompt of four pieces, one phrase in it twice in two spellings: three
\* distinct phrases, classified true.
C11_Witness ==
  /\ call.fn = "is_evolution_prompt" /\ call.done /\ call.ret
  /\ call.pieces = << <<"Recreate", " ", "this">>, <<"InDesign">>,
                      <<"recreate", " ", "this">>, <<"MCP", " ", "tools">> >>

\* C12: the completion record of a result without an error has no error_type;
\* with an error it has the first of timeout, permission, not_found, parameter
\* one of whose words occurs in the message in any case, or unknown when none
\* does; result is "success" exactly when result_analysis.success.
C12_ErrorTypePrecedence ==
  (call.fn = "complete_telemetry_record" /\ call.done)
    => LET has(W) == \E i \in 1..Len(call.pieces) : Lower(call.pieces[i]) \in W
           a == call.ret.result_analysis
       IN /\ a.error_type =
               (IF call.pieces = <<>> THEN "none"
                ELSE IF has({<<"timeout">>}) THEN "timeout"
                ELSE IF has({<<"permission">>, <<"access">>}) THEN "permission"
                ELSE IF has({<<"not", " ", "found">>, <<"missing">>}) THEN "not_found"
                ELSE IF has({<<"invalid">>, <<"parameter">>}) THEN "parameter"
                ELSE "unknown")
          /\ (call.ret.result = "success") <=> a.success
          /\ a.success <=> (call.pieces = <<>>)

\* A message that names a permission and then a timeout is a timeout.
C12_Witness ==
  /\ call.fn = "complete_telemetry_record" /\ call.done
  /\ call.pieces = << <<"permission">>, <<"Timeout">> >>
  /\ call.ret.result_analysis.error_type = "timeout"
  /\ call.ret.result = "error"

\* C13: a sweep, run on its own or by a checkpoint, removes exactly the scratch
\* files last modified more than 3600 seconds ago, whichever session they are
\* of, but for those whose removal fails; the files it keeps are unchanged.
\* (The checkpoint has archived and removed its own session's file before.)
C13_SweepByAge ==
  [][last'.swept =>
       \A i \in DOMAIN scratch :
         \/ last'.op = "checkpoint" /\ i = last'.sid
         \/ /\ Exists(scratch', i) <=> (now - scratch[i].mtime <= 3600 \/ i \in last'.und)
            /\ Exists(scratch', i) => scratch'[i] = scratch[i]]_vars

\* A sweep at 5400 s has kept a file 30 minutes old and removed the file 90
\* minutes old of another session.
C13_Witness ==
  /\ last.op = "sweep" /\ last.und = {} /\ last.wrote = 1
  /\ now = 5400
  /\ DOMAIN scratch = {Sid(3600, 2)}

\* C14: a sweep that follows a sweep, the same removals failing in both,
\* removes nothing: the scratch files are as the first sweep left them.
C14_SweepIdempotent ==
  [][(last.op = "sweep" /\ last'.op = "sweep" /\ last'.und = last.und)
       => scratch' = scratch]_vars

\* A second sweep in succession, run where a file was still in place.
C14_Witness ==
  /\ last.op = "sweep" /\ last.repeat /\ last.wrote = 0
  /\ created = 2
  /\ Cardinality(DOMAIN scratch) = 1

\* C15: the completions of a session that ran one after the other have each
\* counted, total_tools being their number; whatever the interleaving, a
\* readable stats file never counts more tools than completions have started.
C15_ApproximateCounter ==
  /\ \A i \in {procs[k].sid : k \in DOMAIN procs} :
       LET mine == {k \in DOMAIN procs : procs[k].sid = i}
       IN (\A k \in mine : ~procs[k].overl /\ ~Running(procs[k]))
            => /\ Exists(stats, i) /\ ~stats[i].corrupt
               /\ stats[i].total_tools = Cardinality(mine)
  /\ \A i \in DOMAIN stats :
       stats[i].total_tools <= Cardinality({k \in DOMAIN procs : procs[k].sid = i})

\* Two completions that overlapped have both ended, and one tool is counted.
C15_Witness ==
  /\ Len(procs) = 2
  /\ \A k \in DOMAIN procs : procs[k].overl /\ ~Running(procs[k])
  /\ \E i \in DOMAIN stats : ~stats[i].corrupt /\ stats[i].total_tools = 1

\* C16: whichever hook runs next, every log that exists stays, its lines
\* unchanged and in place, with at most one line more at its end; a log that
\* is created has one line.
C16_LogAppendOnly ==
  [][/\ \A i \in DOMAIN logs :
          /\ Exists(logs', i)
          /\ Len(logs'[i]) \in {Len(logs[i]), Len(logs[i]) + 1}
          /\ SubSeq(logs'[i], 1, Len(logs[i])) = logs[i]
     /\ \A i \in DOMAIN logs' \ DOMAIN logs : Len(logs'[i]) = 1]_vars

\* A checkpoint has added its marker after the line of a pre-capture.
C16_Witness ==
  /\ last.op = "checkpoint" /\ last.fin
  /\ Exists(logs, last.sid)
  /\ Len(logs[last.sid]) = 2
  /\ logs[last.sid][1].capture_source = "hook_preuse"
  /\ logs[last.sid][2].event = "session_complete"

\* C17: a pre-capture of a call of a toolset tool adds one line to the log of
\* the derived session id when that id is present under either name, and
\* leaves the logs as they are only when it is absent.
C17_CaptureUnderEitherName ==
  [][(last'.op = "pre" /\ last'.wf /\ last'.prefixed)
       => LET sid == GetSessionInfo(env).session_id
          IN IF Truthy(sid)
             THEN /\ Exists(logs', sid)
                  /\ Len(logs'[sid]) = Len(Lines(logs, sid)) + 1
                  /\ logs'[sid][Len(logs'[sid])].capture_source = "hook_preuse"
             ELSE logs' = logs]_vars

\* C18: a checkpoint invoked when the session it derives has been archived
\* already (so that no session was created since) adds no marker to a log,
\* creates or changes no archive directory and removes no scratch file.
C18_RepeatedCheckpointNoOp ==
  [][(/\ last'.op = "checkpoint"
      /\ \E d \in archives : d.sid = GetSessionInfo(env).session_id /\ d.summary # <<>>)
       => UNCHANGED <<logs, archives, scratch>>]_vars

\* C19: the reference scan returns the text between the end of the label and
\* the end of the line the label is on, stripped, for the first occurrence of
\* "reference image:" if the prompt has one, else for the first occurrence of
\* "reference:", and nothing when the prompt has neither label. (Where that
\* text is empty, the empty text and nothing both pass.)
C19_ReferenceOnSameLine ==
  (call.fn = "extract_reference_info" /\ call.done)
    => LET s == call.arg
           At(lab) == {i \in 1..Len(s) : /\ i + Len(lab) - 1 <= Len(s)
                                         /\ Lower(SubSeq(s, i, i + Len(lab) - 1)) = lab}
           Rest(lab) ==
             LET i == CHOOSE x \in At(lab) : \A y \in At(lab) : x <= y
                 j == i + Len(lab)
                 nl == {k \in j..Len(s) : s[k] = "\n"}
                 e == IF nl = {} THEN Len(s) ELSE (CHOOSE x \in nl : \A y \in nl : x <= y) - 1
             IN Strip(SubSeq(s, j, e))
           Returns(text) == IF text = <<>> THEN ~call.ret.found \/ call.ret.s = <<>>
                            ELSE call.ret = [found |-> TRUE, s |-> text]
       IN IF At(RefPatterns[1]) # {} THEN Returns(Rest(RefPatterns[1]))
          ELSE IF At(RefPatterns[2]) # {} THEN Returns(Rest(RefPatterns[2]))
          ELSE ~call.ret.found

\* C20: get_session_info returns for every ambient context: the first
\* non-empty of the two session id names, the agent id or "unknown" when it
\* is not set, and as generation the value of a text of decimal digits, 0 for
\* any other text and for none.
C20_DeriveContextNeverFails ==
  (call.fn = "get_session_info" /\ call.done)
    => LET e == call.arg
           gen == e["TELEMETRY_GENERATION"]
           decimal == /\ gen.k = "text" /\ gen.s # <<>>
                      /\ \A i \in 1..Len(gen.s) : gen.s[i] \in DecDigits
       IN /\ ~call.ret.raised
          /\ call.ret.session_id =
               (IF Truthy(e["EVOLUTION_SESSION_ID"]) THEN e["EVOLUTION_SESSION_ID"]
                ELSE e["TELEMETRY_SESSION_ID"])
          /\ call.ret.agent_id =
               (IF e["TELEMETRY_AGENT_ID"] = Unset THEN TextVal(<<"unknown">>)
                ELSE e["TELEMETRY_AGENT_ID"])
          /\ call.ret.generation = (IF decimal THEN IntOf(gen.s) ELSE 0)
          /\ call.ret.generation >= 0

\* C21: a checkpoint that produced an archive and whose finalize step
\* succeeded leaves in the archive directory a copy of the session log that
\* holds every line the log had before the checkpoint, in place, and the
\* session_complete marker after them.
C21_FinalizePrecedesArchive ==
  [][(last'.op = "checkpoint" /\ last'.archived /\ last'.fin)
       => \E d \in archives' :
            /\ d.ts = last'.arch.ts /\ d.sid = last'.sid
            /\ d.log # <<>>
            /\ LET old == Lines(logs, last'.sid)
                   copy == d.log[1]
               IN /\ Len(copy) = Len(old) + 1
                  /\ SubSeq(copy, 1, Len(old)) = old
                  /\ copy[Len(copy)].event = "session_complete"]_vars

\* A checkpoint has archived a log of one captured call and the marker.
C21_Witness ==
  /\ last.op = "checkpoint" /\ last.archived /\ last.fin
  /\ \E d \in archives :
       /\ d.sid = last.sid /\ d.log # <<>>
       /\ Len(d.log[1]) = 2
       /\ d.log[1][1].capture_source = "hook_preuse"
       /\ d.log[1][2].event = "session_complete"

C23_MetadataNeverLost ==
  [][/\ (/\ last'.op = "checkpoint"
         /\ Exists(scratch, last'.sid) /\ ~Exists(scratch', last'.sid)
         /\ now - scratch[last'.sid].mtime <= MaxAge)
          => \E d \in archives' :
               /\ d.sid = last'.sid /\ d.ts = now
               /\ d.meta = <<scratch[last'.sid]>>
     /\ \A d \in archives :
          d.meta # <<>> => \E e \in archives' : e.sid = d.sid /\ e.ts = d.ts /\ e.meta # <<>>]_vars

\* A checkpoint whose archive failed after the scratch file was removed: no
\* summary was written, and the copy of the metadata is in the directory.
C23_Witness ==
  /\ last.op = "checkpoint" /\ last.trig /\ ~last.archived
  /\ ~Exists(scratch, last.sid)
  /\ \E d \in archives : d.sid = last.sid /\ d.meta # <<>> /\ d.summary = <<>>

====
